---- MODULE Spec2Model ----
(***************************************************************************)
(* preinstall-guardian: static risk analysis of npm lifecycle scripts.     *)
(*                                                                         *)
(* The module models src/index.js (class PreinstallGuardian: the pattern   *)
(* catalog, analyzeScript, getContext, calculateOverallRisk,               *)
(* generateFindings, scanPackageJson, scanNodeModules) and the command     *)
(* line front end (main, printSummary).  Script texts are real strings and *)
(* the regular expressions are evaluated character by character.           *)
(***************************************************************************)
EXTENDS Integers, Sequences, FiniteSets, TLC

VARIABLES
    script,      \* SpecAnalyze: the script text handed to analyzeScript
    analysis,    \* SpecAnalyze: what analyzeScript returned
    metadata,    \* SpecScan: the content of the package.json handed to scanPackageJson
    scanResult,  \* SpecScan: what scanPackageJson returned or threw
    command,     \* Spec: args[0] and args[1] of the command line
    rootPkg,     \* Spec: the file ./package.json (or the scan target)
    tree,        \* Spec: the directory node_modules
    pc,          \* Spec: position of the process
    packages,    \* scanNodeModules: the filtered listing of the root
    scoped,      \* scanNodeModules: the filtered listing of the current scope
    i,           \* scanNodeModules: index of the outer loop
    j,           \* scanNodeModules: index of the inner loop
    results,     \* scanNodeModules: the list being collected
    reads,       \* paths handed to fs.readFileSync so far
    scanned,     \* every PackageScanResult produced during the invocation
    exitCode     \* process exit status, -1 while running

vars == <<script, analysis, metadata, scanResult, command, rootPkg, tree, pc,
          packages, scoped, i, j, results, reads, scanned, exitCode>>

-----------------------------------------------------------------------------
(* Bounds *)

MaxTokens == 2      \* tokens concatenated into one script text
MaxScripts == 2     \* lifecycle keys present in one package.json
MaxEntries == 2     \* directory entries in node_modules
MaxScoped == 2      \* directory entries in one @scope directory

-----------------------------------------------------------------------------
(* JavaScript strings and regular expressions *)

Max(a, b) == IF a >= b THEN a ELSE b
Min(a, b) == IF a <= b THEN a ELSE b

\* s.charAt(k - 1)
Ch(s, k) == SubSeq(s, k, k)

UpperCase == "ABCDEFGHIJKLMNOPQRSTUVWXYZ"
LowerCase == "abcdefghijklmnopqrstuvwxyz"

\* canonical form of one character under the i flag
ToLower ==
    [c \in {Ch(UpperCase, k) : k \in 1..26} |->
        Ch(LowerCase, CHOOSE k \in 1..26 : Ch(UpperCase, k) = c)]
Canon(c) == IF c \in DOMAIN ToLower THEN ToLower[c] ELSE c

\* canonical form of a text: character by character
RECURSIVE CanonStr(_)
CanonStr(s) ==
    IF Len(s) <= 1 THEN Canon(s)
    ELSE LET half == Len(s) \div 2
         IN CanonStr(SubSeq(s, 1, half)) \o CanonStr(SubSeq(s, half + 1, Len(s)))

\* \s
IsSpace(c) == c \in {" ", "\t", "\n", "\r", "\f"}
\* . (no s flag)
IsDot(c) == c \notin {"\n", "\r"}

\* s.startsWith(prefix)
startsWith(s, prefix) == Len(s) >= Len(prefix) /\ SubSeq(s, 1, Len(prefix)) = prefix
\* s.endsWith(suffix)
endsWith(s, suffix) ==
    Len(s) >= Len(suffix) /\ SubSeq(s, Len(s) - Len(suffix) + 1, Len(s)) = suffix

\* Regular expression elements.
Lit(s) == [t |-> "lit", s |-> s]     \* a literal run of characters
Opt(s) == [t |-> "opt", s |-> s]     \* (s)?
WsStar == [t |-> "ws*", s |-> ""]    \* \s*
WsPlus == [t |-> "ws+", s |-> ""]    \* \s+
DotStar == [t |-> "any*", s |-> ""]  \* .*

\* does the literal lit occur in the text cs at position pos (1-based)?
LitAt(cs, pos, lit) ==
    /\ pos + Len(lit) - 1 <= Len(cs)
    /\ SubSeq(cs, pos, pos + Len(lit) - 1) = lit

\* the least and the greatest member of a non-empty set of numbers
Least(ns) == CHOOSE n \in ns : \A m \in ns : n <= m
Greatest(ns) == CHOOSE n \in ns : \A m \in ns : n >= m

\* is the character in the class an element repeats?
InClass(t, c) == IF t = "any*" THEN IsDot(c) ELSE IsSpace(c)

\* number of consecutive characters from pos on that the element can repeat over
RunUpTo(pos, last, stops) == IF stops = {} THEN last - pos + 1 ELSE Least(stops) - pos
Run(cs, pos, t) ==
    RunUpTo(pos, Len(cs), {q \in pos..Len(cs) : ~InClass(t, Ch(cs, q))})

\* r when it is a match, otherwise the alternative
FirstNonZero(r, alternative) == IF r # 0 THEN r ELSE alternative

\* of the repetition counts that let the rest match, the greatest decides
Greediest(hits) ==
    IF hits = {} THEN 0
    ELSE (CHOOSE h \in hits : h[1] = Greatest({g[1] : g \in hits}))[2]

\* Backtracking matcher: the position after the match of elements k.. of the
\* alternative alt at position pos, or 0 when there is none.  Quantifiers are
\* greedy: the longest repetition that lets the rest match is taken.
RECURSIVE MatchEnd(_, _, _, _)
TryRepeat(alt, k, cs, pos, n, least) ==
    Greediest({h \in {<<m, MatchEnd(alt, k + 1, cs, pos + m)>> : m \in least..n} : h[2] # 0})
MatchEnd(alt, k, cs, pos) ==
    IF k > Len(alt) THEN pos
    ELSE IF alt[k].t = "lit"
         THEN IF LitAt(cs, pos, alt[k].s) THEN MatchEnd(alt, k + 1, cs, pos + Len(alt[k].s)) ELSE 0
    ELSE IF alt[k].t = "opt" /\ LitAt(cs, pos, alt[k].s)
         THEN FirstNonZero(MatchEnd(alt, k + 1, cs, pos + Len(alt[k].s)),
                           MatchEnd(alt, k + 1, cs, pos))
    ELSE IF alt[k].t = "opt" THEN MatchEnd(alt, k + 1, cs, pos)
    ELSE TryRepeat(alt, k, cs, pos, Run(cs, pos, alt[k].t),
                   IF alt[k].t = "ws+" THEN 1 ELSE 0)

\* the match of a regular expression (a sequence of alternatives, tried in
\* order) at position pos exactly: the position after it, or 0
RECURSIVE MatchAt(_, _, _, _)
MatchAt(alts, a, cs, pos) ==
    IF a > Len(alts) THEN 0
    ELSE FirstNonZero(MatchEnd(alts[a], 1, cs, pos), MatchAt(alts, a + 1, cs, pos))

\* of the matches <<start, end>> the leftmost, or <<0, 0>>
Leftmost(spans) ==
    IF spans = {} THEN <<0, 0>>
    ELSE CHOOSE m \in spans : m[1] = Least({n[1] : n \in spans})

\* the leftmost match at or after position from: <<start, end>> (1-based start,
\* end the position after the match), or <<0, 0>>
Search(alts, cs, from) ==
    Leftmost({m \in {<<p, MatchAt(alts, 1, cs, p)>> : p \in from..(Len(cs) + 1)} : m[2] # 0})

\* the text a regular expression is matched against
Subject(re, s) == IF re.ignoreCase THEN CanonStr(s) ELSE s

\* regex.test(s) for a regular expression without the g flag
RegExpTest(re, s) == Search(re.alts, Subject(re, s), 1)[1] # 0

\* every match of a g-flagged regular expression, left to right
RECURSIVE AllMatches(_, _, _, _)
MatchAndRest(alts, s, cs, m) ==
    IF m[1] = 0 THEN <<>>
    ELSE <<SubSeq(s, m[1], m[2] - 1)>>
         \o AllMatches(alts, s, cs, IF m[2] = m[1] THEN m[2] + 1 ELSE m[2])
AllMatches(alts, s, cs, from) == MatchAndRest(alts, s, cs, Search(alts, cs, from))

Null == [null |-> TRUE]

\* s.match(re): with the g flag the result is the array of all matched texts,
\* which carries no index property; without it, the first match with its index.
GlobalMatch(all) == IF all = <<>> THEN Null ELSE [null |-> FALSE, texts |-> all]
FirstMatch(s, m) ==
    IF m[1] = 0 THEN Null
    ELSE [null |-> FALSE, texts |-> <<SubSeq(s, m[1], m[2] - 1)>>, index |-> m[1] - 1]
MatchIn(s, re, cs) ==
    IF re.global THEN GlobalMatch(AllMatches(re.alts, s, cs, 1))
    ELSE FirstMatch(s, Search(re.alts, cs, 1))
StringMatch(s, re) == MatchIn(s, re, Subject(re, s))

\* JavaScript numbers as far as getContext needs them: an integer or NaN
Num(n) == [nan |-> FALSE, v |-> n]
NaN == [nan |-> TRUE, v |-> 0]

\* found.index: undefined when the array has no such property; undefined
\* turns into NaN in arithmetic
IndexOf(found) == IF "index" \in DOMAIN found THEN Num(found.index) ELSE NaN

MathMax(a, b) == IF a.nan \/ b.nan THEN NaN ELSE Num(Max(a.v, b.v))
MathMin(a, b) == IF a.nan \/ b.nan THEN NaN ELSE Num(Min(a.v, b.v))
Plus(a, b) == IF a.nan \/ b.nan THEN NaN ELSE Num(a.v + b.v)
Minus(a, b) == IF a.nan \/ b.nan THEN NaN ELSE Num(a.v - b.v)

\* s.substring(start, end): NaN counts as 0, arguments are clamped to
\* [0, length] and swapped when start > end
substring(s, start, end) ==
    LET clamp(x) == IF x.nan THEN 0 ELSE Max(0, Min(Len(s), x.v))
        a == clamp(start)
        b == clamp(end)
    IN SubSeq(s, Min(a, b) + 1, Max(a, b))

-----------------------------------------------------------------------------
(* The pattern catalog and the script analyzer *)

\* a regular expression literal with flags gi or i; under the i flag the
\* pattern's characters are compared in canonical form
RegExp(source, flags, alts) ==
    [source |-> source, global |-> flags = "gi", ignoreCase |-> TRUE,
     alts |-> [a \in DOMAIN alts |->
                 [k \in DOMAIN alts[a] |-> [alts[a][k] EXCEPT !.s = CanonStr(@)]]]]

\* /name(Sync)?\s*\(/gi and /name\s*\(/gi
Call(name) == <<Lit(name), WsStar, Lit("(")>>
CallSync(name) == <<Lit(name), Opt("Sync"), WsStar, Lit("(")>>

suspiciousPatterns == <<
    \* Network activity
    RegExp("fetch\\s*\\(", "gi", <<Call("fetch")>>),
    RegExp("axios\\s*\\(", "gi", <<Call("axios")>>),
    RegExp("https?:\\/\\/", "gi", <<<<Lit("http"), Opt("s"), Lit("://")>>>>),
    RegExp("webhook\\.site", "gi", <<<<Lit("webhook.site")>>>>),
    \* File system access
    RegExp("writeFile(Sync)?\\s*\\(", "gi", <<CallSync("writeFile")>>),
    RegExp("unlink(Sync)?\\s*\\(", "gi", <<CallSync("unlink")>>),
    RegExp("rmdir\\s*\\(", "gi", <<Call("rmdir")>>),
    RegExp("rm\\s+-rf", "gi", <<<<Lit("rm"), WsPlus, Lit("-rf")>>>>),
    \* Shell execution
    RegExp("exec(Sync)?\\s*\\(", "gi", <<CallSync("exec")>>),
    RegExp("spawn(Sync)?\\s*\\(", "gi", <<CallSync("spawn")>>),
    RegExp("child_process", "gi", <<<<Lit("child_process")>>>>),
    \* Environment variable access
    RegExp("process\\.env", "gi", <<<<Lit("process.env")>>>>),
    RegExp("\\.ssh", "gi", <<<<Lit(".ssh")>>>>),
    RegExp("\\.aws", "gi", <<<<Lit(".aws")>>>>),
    RegExp("\\.git", "gi", <<<<Lit(".git")>>>>),
    \* Token patterns
    RegExp("github.*token", "gi", <<<<Lit("github"), DotStar, Lit("token")>>>>),
    RegExp("npm.*token", "gi", <<<<Lit("npm"), DotStar, Lit("token")>>>>),
    RegExp("api.*key", "gi", <<<<Lit("api"), DotStar, Lit("key")>>>>),
    \* Obfuscation
    RegExp("eval\\s*\\(", "gi", <<Call("eval")>>),
    RegExp("Function\\s*\\(", "gi", <<Call("Function")>>),
    RegExp("Buffer\\.from.*base64", "gi", <<<<Lit("Buffer.from"), DotStar, Lit("base64")>>>>),
    \* Crypto hijacking
    RegExp("crypto.*wallet", "gi", <<<<Lit("crypto"), DotStar, Lit("wallet")>>>>),
    RegExp("ethereum", "gi", <<<<Lit("ethereum")>>>>),
    RegExp("bitcoin", "gi", <<<<Lit("bitcoin")>>>>),
    \* Bun runtime
    RegExp("setup_bun\\.js", "gi", <<<<Lit("setup_bun.js")>>>>),
    RegExp("bun_environment\\.js", "gi", <<<<Lit("bun_environment.js")>>>>) >>

riskScores ==
    [CRITICAL |-> 100, HIGH |-> 75, MEDIUM |-> 50, LOW |-> 25, SAFE |-> 0]

\* /fetch|axios|https?:\/\//i
hasNetworkRe ==
    RegExp("fetch|axios|https?:\\/\\/", "i",
           <<<<Lit("fetch")>>, <<Lit("axios")>>, <<Lit("http"), Opt("s"), Lit("://")>>>>)
\* /process\.env/i
hasEnvRe == RegExp("process\\.env", "i", <<<<Lit("process.env")>>>>)
\* /exec|spawn|child_process/i
hasExecRe ==
    RegExp("exec|spawn|child_process", "i",
           <<<<Lit("exec")>>, <<Lit("spawn")>>, <<Lit("child_process")>>>>)
\* /eval|Function\(|base64/i
hasObfuscationRe ==
    RegExp("eval|Function\\(|base64", "i",
           <<<<Lit("eval")>>, <<Lit("Function(")>>, <<Lit("base64")>>>>)

getContext(content, index, radius) ==
    LET start == MathMax(Num(0), Minus(index, Num(radius)))
        end == MathMin(Num(Len(content)), Plus(index, Num(radius)))
    IN substring(content, start, end)

\* lines 102-108: the Match pushed for a pattern, if it was found
MatchFor(scriptContent, pattern, found) ==
    IF found.null THEN <<>>
    ELSE <<[pattern |-> pattern.source,
            matched |-> found.texts[1],
            context |-> getContext(scriptContent, IndexOf(found), 50)]>>

\* the loop over the catalog: one Match per pattern that matches
RECURSIVE CollectMatches(_, _, _)
CollectMatches(scriptContent, patterns, k) ==
    IF k > Len(patterns) THEN <<>>
    ELSE MatchFor(scriptContent, patterns[k], StringMatch(scriptContent, patterns[k]))
         \o CollectMatches(scriptContent, patterns, k + 1)

BaseLevel(n) ==
    IF n >= 5 THEN "CRITICAL"
    ELSE IF n >= 3 THEN "HIGH"
    ELSE IF n >= 1 THEN "MEDIUM"
    ELSE "LOW"

\* lines 111-139, given the matches and the four combination tests
Assess(scriptName, scriptContent, matches, hasNetwork, hasEnv, hasExec, hasObfuscation) ==
    LET combined == (hasNetwork /\ hasEnv) \/ (hasExec /\ hasObfuscation)
        riskLevel == IF combined THEN "CRITICAL" ELSE BaseLevel(Len(matches))
        risks == (IF combined
                  THEN <<"Combines network access with environment variable reading">>
                  ELSE <<>>)
                 \o (IF hasObfuscation THEN <<"Uses code obfuscation techniques">> ELSE <<>>)
    IN [scriptName |-> scriptName,
        scriptContent |-> scriptContent,
        matches |-> matches,
        riskLevel |-> riskLevel,
        risks |-> risks,
        score |-> riskScores[riskLevel]]

\* the four tests of lines 118-121, in that order
CombinationTests == <<hasNetworkRe, hasEnvRe, hasExecRe, hasObfuscationRe>>
Tested(scriptContent) ==
    [k \in DOMAIN CombinationTests |-> RegExpTest(CombinationTests[k], scriptContent)]

AssessTests(scriptName, scriptContent, matches, has) ==
    Assess(scriptName, scriptContent, matches, has[1], has[2], has[3], has[4])

analyzeScript(scriptName, scriptContent) ==
    AssessTests(scriptName, scriptContent,
                CollectMatches(scriptContent, suspiciousPatterns, 1),
                Tested(scriptContent))

-----------------------------------------------------------------------------
(* SpecAnalyze: analyzeScript applied to bounded script texts *)

Padding == "node ./scripts/build.js --silent --target=release && "

Tokens ==
    { "echo hello", "fetch(", "FETCH (", "webhook.site", "process.env", ".ssh",
      "exec(", "exec ", "Function (", "function(", "eval(", "base64", "https://x ",
      "npm_token", Padding }

RECURSIVE Concat(_)
Concat(ts) == IF ts = <<>> THEN "" ELSE Head(ts) \o Concat(Tail(ts))

ScriptTexts == { Concat(ts) : ts \in UNION { [1..n -> Tokens] : n \in 0..MaxTokens } }

NoResult == [none |-> TRUE]

Idle ==
    /\ command = <<>>
    /\ rootPkg = NoResult
    /\ tree = NoResult
    /\ pc = "idle"
    /\ packages = <<>>
    /\ scoped = <<>>
    /\ i = 0
    /\ j = 0
    /\ results = <<>>
    /\ reads = <<>>
    /\ scanned = <<>>
    /\ exitCode = -1

InitAnalyze ==
    /\ script \in ScriptTexts
    /\ analysis = NoResult
    /\ metadata = NoResult
    /\ scanResult = NoResult
    /\ Idle

Analyze ==
    /\ analysis = NoResult
    /\ analysis' = analyzeScript("install", script)
    /\ UNCHANGED <<script, metadata, scanResult, command, rootPkg, tree, pc,
                   packages, scoped, i, j, results, reads, scanned, exitCode>>

NextAnalyze == Analyze

SpecAnalyze == InitAnalyze /\ [][NextAnalyze]_vars

-----------------------------------------------------------------------------
(* JSON values and files *)

\* A value is a record of one shape: its type and, according to the type,
\* its text, its number or its properties.
NoProperties == [k \in {} |-> 0]
JStr(s) == [type |-> "string", s |-> s, n |-> 0, o |-> NoProperties]
JNum(n) == [type |-> "number", s |-> "", n |-> n, o |-> NoProperties]
JObj(f) == [type |-> "object", s |-> "", n |-> 0, o |-> f]
JNull == [type |-> "null", s |-> "", n |-> 0, o |-> NoProperties]
Undefined == [type |-> "undefined", s |-> "", n |-> 0, o |-> NoProperties]

\* o[key] for a value that is neither null nor undefined: primitives have
\* none of the keys used here
Get(x, key) == IF x.type = "object" /\ key \in DOMAIN x.o THEN x.o[key] ELSE Undefined

\* ToBoolean
Truthy(x) ==
    CASE x.type = "string" -> x.s # ""
      [] x.type = "number" -> x.n # 0
      [] x.type = "object" -> TRUE
      [] OTHER -> FALSE

\* a || fallback, for the string-valued fields name and version
OrElse(x, fallback) == IF Truthy(x) THEN x.s ELSE fallback

\* A path of the file system: nothing there, a file that cannot be read, a
\* file whose content is not JSON, or a file holding a JSON value.
Missing == [state |-> "missing", json |-> Undefined]
Unreadable == [state |-> "unreadable", json |-> Undefined]
Malformed == [state |-> "malformed", json |-> Undefined]
JsonFile(value) == [state |-> "json", json |-> value]

\* fs.existsSync(path)
existsSync(file) == file.state # "missing"

Threw(message) == [threw |-> TRUE, error |-> message]
Returned(value) == [threw |-> FALSE, value |-> value]

-----------------------------------------------------------------------------
(* The risk aggregator *)

dangerousScripts ==
    <<"preinstall", "install", "postinstall", "preuninstall", "uninstall", "postuninstall">>

\* Math.max(...scores) of a non-empty list
RECURSIVE MaxOf(_)
MaxOf(scores) ==
    IF Len(scores) = 1 THEN scores[1] ELSE Max(Head(scores), MaxOf(Tail(scores)))

\* calculateOverallRisk without the maximum: the score of the first script decides
calculateOverallRiskOfFirst(scripts) ==
    IF Len(scripts) = 0 THEN "SAFE"
    ELSE LET maxScore == scripts[1].score IN
         IF maxScore >= riskScores.CRITICAL THEN "CRITICAL"
         ELSE IF maxScore >= riskScores.HIGH THEN "HIGH"
         ELSE IF maxScore >= riskScores.MEDIUM THEN "MEDIUM"
         ELSE IF maxScore >= riskScores.LOW THEN "LOW"
         ELSE "SAFE"

\* results.scripts is kept as the list of its values in insertion order
calculateOverallRisk(scripts) ==
    IF Len(scripts) = 0 THEN "SAFE"
    ELSE LET maxScore == MaxOf([k \in DOMAIN scripts |-> scripts[k].score]) IN
         IF maxScore >= riskScores.CRITICAL THEN "CRITICAL"
         ELSE IF maxScore >= riskScores.HIGH THEN "HIGH"
         ELSE IF maxScore >= riskScores.MEDIUM THEN "MEDIUM"
         ELSE IF maxScore >= riskScores.LOW THEN "LOW"
         ELSE "SAFE"

generateFindings(scripts) ==
    [k \in DOMAIN scripts |->
        [type |-> "lifecycle_script",
         severity |-> scripts[k].riskLevel,
         script |-> scripts[k].scriptName,
         count |-> Len(scripts[k].matches),
         details |-> scripts[k].risks,
         matches |-> scripts[k].matches]]

\* the loop with totalMatches assigned instead of added to
RECURSIVE ScanScriptsAssigning(_, _, _, _)
AssignAndGoOn(scripts, k, collected, total, a) ==
    ScanScriptsAssigning(scripts, k + 1, Append(collected, a), Len(a.matches))
ScanScriptsAssigning(scripts, k, collected, total) ==
    IF k > Len(dangerousScripts) THEN Returned([scripts |-> collected, totalMatches |-> total])
    ELSE IF ~Truthy(Get(scripts, dangerousScripts[k]))
         THEN ScanScriptsAssigning(scripts, k + 1, collected, total)
    ELSE IF Get(scripts, dangerousScripts[k]).type # "string"
         THEN Threw("scriptContent.match is not a function")
    ELSE AssignAndGoOn(scripts, k, collected, total,
                       analyzeScript(dangerousScripts[k], Get(scripts, dangerousScripts[k]).s))

\* One pass of the loop over dangerousScripts from index k on, given the
\* analyses and the match total collected so far.  scriptContent.match is not
\* a function when the value is not a string: analyzeScript throws a TypeError.
RECURSIVE ScanScripts(_, _, _, _)
\* lines 83-84: the analysis is recorded and its matches are added to the total
AddAndGoOn(scripts, k, collected, total, a) ==
    ScanScripts(scripts, k + 1, Append(collected, a), total + Len(a.matches))
ScanScripts(scripts, k, collected, total) ==
    IF k > Len(dangerousScripts) THEN Returned([scripts |-> collected, totalMatches |-> total])
    ELSE IF ~Truthy(Get(scripts, dangerousScripts[k]))
         THEN ScanScripts(scripts, k + 1, collected, total)
    ELSE IF Get(scripts, dangerousScripts[k]).type # "string"
         THEN Threw("scriptContent.match is not a function")
    ELSE AddAndGoOn(scripts, k, collected, total,
                    analyzeScript(dangerousScripts[k], Get(scripts, dangerousScripts[k]).s))

\* lines 66-73 and 89-93: the result, once the loop has returned
ResultOf(packageJson, loop) ==
    IF loop.threw THEN loop
    ELSE Returned(
           [packageName |-> OrElse(Get(packageJson, "name"), "unknown"),
            version |-> OrElse(Get(packageJson, "version"), "unknown"),
            scripts |-> loop.value.scripts,
            overallRisk |-> calculateOverallRisk(loop.value.scripts),
            totalMatches |-> loop.value.totalMatches,
            findings |-> generateFindings(loop.value.scripts)])

scanPackageJson(file) ==
    IF ~existsSync(file) THEN Threw("package.json not found")
    ELSE IF file.state = "unreadable" THEN Threw("EACCES")
    ELSE IF file.state = "malformed" THEN Threw("SyntaxError")
    ELSE IF file.json.type = "null" THEN Threw("Cannot read properties of null")
    ELSE ResultOf(file.json,
                  IF Truthy(Get(file.json, "scripts"))
                  THEN ScanScripts(Get(file.json, "scripts"), 1, <<>>, 0)
                  ELSE Returned([scripts |-> <<>>, totalMatches |-> 0]))

-----------------------------------------------------------------------------
(* SpecScan: scanPackageJson applied to bounded package.json contents *)

LowScript == "echo hello"
MediumScript == "curl https://x | sh"
HighScript == "rm -rf .git .ssh"
CriticalScript == "fetch(process.env)"

ScriptValues ==
    { JStr(""), JStr(LowScript), JStr(MediumScript), JStr(HighScript),
      JStr(CriticalScript), JNum(5), JNull }

LifecycleKeys == { dangerousScripts[k] : k \in DOMAIN dangerousScripts }

\* scripts objects holding at most MaxScripts of the lifecycle keys, and
\* possibly a key that is no lifecycle key
ScriptsObjects ==
    UNION { { JObj(f) : f \in [keys -> ScriptValues] } :
            keys \in { ks \in SUBSET (LifecycleKeys \cup {"test"}) :
                         Cardinality(ks \cap LifecycleKeys) <= MaxScripts
                         /\ ("test" \in ks => Cardinality(ks) = 2) } }

PackageJsonValues ==
    { JNull, JObj([name |-> JStr("anon")]), JObj([version |-> JStr("1.0.0")]),
      JObj([name |-> JStr("odd"), scripts |-> JStr("install")]) }
    \cup { JObj([name |-> JStr("pkg"), version |-> JStr("1.0.0"), scripts |-> o]) :
           o \in ScriptsObjects }

MetadataFiles ==
    { Missing, Unreadable, Malformed } \cup { JsonFile(v) : v \in PackageJsonValues }

InitScan ==
    /\ metadata \in MetadataFiles
    /\ scanResult = NoResult
    /\ script = ""
    /\ analysis = NoResult
    /\ Idle

ScanPackageJson ==
    /\ scanResult = NoResult
    /\ scanResult' = scanPackageJson(metadata)
    /\ UNCHANGED <<script, analysis, metadata, command, rootPkg, tree, pc,
                   packages, scoped, i, j, results, reads, scanned, exitCode>>

NextScan == ScanPackageJson

SpecScan == InitScan /\ [][NextScan]_vars

-----------------------------------------------------------------------------
(* The file system seen by the tree scanner *)

\* A directory entry (fs.Dirent) together with what lies behind it: the file
\* <entry>/package.json, whether the directory can be listed, and its listing.
Entry(name, isDirectory, readable, pkg, children) ==
    [name |-> name, isDirectory |-> isDirectory, readable |-> readable,
     pkg |-> pkg, children |-> children]

PackageJson(name, scripts) ==
    JsonFile(JObj([name |-> JStr(name), version |-> JStr("1.0.0"), scripts |-> JObj(scripts)]))

CleanPkg == JsonFile(JObj([name |-> JStr("clean"), version |-> JStr("1.0.0")]))
LowPkg == PackageJson("low", [install |-> JStr(LowScript)])
HighPkg == PackageJson("high", [preinstall |-> JStr(HighScript)])
CriticalPkg == PackageJson("critical", [postinstall |-> JStr(CriticalScript)])
NonStringPkg == PackageJson("nonstring", [install |-> JNum(5)])

\* the listings of a directory: at most n entries with distinct names
Listings(entries, n) ==
    { l \in UNION { [1..m -> entries] : m \in 0..n } :
        \A a, b \in DOMAIN l : a # b => l[a].name # l[b].name }

ScopedEntries ==
    { Entry("core", TRUE, TRUE, f, <<>>) : f \in {CriticalPkg, CleanPkg, Malformed} }
    \cup { Entry(".cache", TRUE, TRUE, LowPkg, <<>>),
           Entry("index.js", FALSE, TRUE, Missing, <<>>) }

TopEntries ==
    { Entry(".bin", TRUE, TRUE, CriticalPkg, <<>>),
      Entry("README.md", FALSE, TRUE, Missing, <<>>) }
    \cup { Entry("left-pad", TRUE, TRUE, f, <<>>) : f \in {Missing, CleanPkg, LowPkg} }
    \cup { Entry("evil", TRUE, TRUE, f, <<>>) :
             f \in {CriticalPkg, Malformed, NonStringPkg, Unreadable} }
    \cup { Entry("@scope", TRUE, FALSE, f, <<>>) : f \in {Missing, CriticalPkg} }
    \cup { Entry("@scope", TRUE, TRUE, f, l) :
             f \in {Missing, HighPkg}, l \in Listings(ScopedEntries, MaxScoped) }

\* the directory handed to scanNodeModules: absent, or present with a listing
NoDirectory == [exists |-> FALSE, entries |-> <<>>]
Directory(l) == [exists |-> TRUE, entries |-> l]
Trees == {NoDirectory} \cup { Directory(l) : l \in Listings(TopEntries, MaxEntries) }

\* every package.json of the bounded file system
TreeFiles ==
    { e.pkg : e \in TopEntries \cup ScopedEntries }
    \cup { Missing, Malformed, Unreadable, CleanPkg, LowPkg, HighPkg, CriticalPkg, NonStringPkg }

\* scanPackageJson keeps no state between calls: what it does with a file is
\* a function of the file alone, tabulated here for the files above
scanOutcomes == [file \in TreeFiles |-> scanPackageJson(file)]
Scan(file) == scanOutcomes[file]

\* path.join(...)
Join2(a, b) == a \o "/" \o b
Join3(a, b, c) == a \o "/" \o b \o "/" \o c

nodeModulesPath == "node_modules"

-----------------------------------------------------------------------------
(* scanNodeModules, one step of its loops at a time *)

\* the try block keeping a result only when it is both not SAFE and has matches
TryScanBoth(outcome, list) ==
    IF outcome.threw THEN list
    ELSE IF outcome.value.overallRisk # "SAFE" /\ outcome.value.totalMatches > 0
         THEN Append(list, outcome.value)
         ELSE list

\* the body of both try blocks, given what scanPackageJson did: keep the
\* result when it is not clean, swallow whatever was thrown
TryScan(outcome, list) ==
    IF outcome.threw THEN list
    ELSE IF outcome.value.overallRisk # "SAFE" \/ outcome.value.totalMatches > 0
         THEN Append(list, outcome.value)
         ELSE list

\* every result scanPackageJson hands back, kept or not
Record(outcome, list) == IF outcome.threw THEN list ELSE Append(list, outcome.value)

\* lines 179-186: the existence test and the filtered listing of the root
WalkStart ==
    /\ pc = "walk:start"
    /\ results' = <<>>
    /\ IF ~tree.exists
       THEN /\ pc' = "walk:returned"
            /\ UNCHANGED <<packages, i>>
       ELSE /\ packages' = SelectSeq(tree.entries,
                                     LAMBDA dirent : dirent.isDirectory
                                                     /\ ~startsWith(dirent.name, "."))
            /\ i' = 1
            /\ pc' = "walk:package"
    /\ UNCHANGED <<script, analysis, metadata, scanResult, command, rootPkg, tree,
                   scoped, j, reads, scanned, exitCode>>

\* lines 188-200 and the test of line 203: one package of the root listing
VisitPackage ==
    /\ pc = "walk:package"
    /\ i <= Len(packages)
    /\ LET pkg == packages[i]
           packageJsonPath == Join3(nodeModulesPath, pkg.name, "package.json")
           outcome == Scan(pkg.pkg)
       IN /\ IF existsSync(pkg.pkg)
             THEN /\ results' = TryScan(outcome, results)
                  /\ reads' = Append(reads, packageJsonPath)
                  /\ scanned' = Record(outcome, scanned)
             ELSE UNCHANGED <<results, reads, scanned>>
          /\ IF startsWith(pkg.name, "@")
             THEN pc' = "walk:scope" /\ i' = i
             ELSE pc' = "walk:package" /\ i' = i + 1
    /\ UNCHANGED <<script, analysis, metadata, scanResult, command, rootPkg, tree,
                   packages, scoped, j, exitCode>>

\* lines 204-206: the listing of a scope directory, outside any try block
ListScope ==
    /\ pc = "walk:scope"
    /\ LET pkg == packages[i] IN
       IF ~pkg.readable
       THEN /\ pc' = "walk:raised"
            /\ UNCHANGED <<scoped, j>>
       ELSE /\ scoped' = SelectSeq(pkg.children, LAMBDA dirent : dirent.isDirectory)
            /\ j' = 1
            /\ pc' = "walk:scoped"
    /\ UNCHANGED <<script, analysis, metadata, scanResult, command, rootPkg, tree,
                   packages, i, results, reads, scanned, exitCode>>

\* lines 208-221: one package of a scope's listing
VisitScoped ==
    /\ pc = "walk:scoped"
    /\ j <= Len(scoped)
    /\ LET scopedPkg == scoped[j]
           scopedPath == Join2(nodeModulesPath, packages[i].name)
           packageJsonPath == Join3(scopedPath, scopedPkg.name, "package.json")
           outcome == Scan(scopedPkg.pkg)
       IN IF existsSync(scopedPkg.pkg)
          THEN /\ results' = TryScan(outcome, results)
               /\ reads' = Append(reads, packageJsonPath)
               /\ scanned' = Record(outcome, scanned)
          ELSE UNCHANGED <<results, reads, scanned>>
    /\ j' = j + 1
    /\ UNCHANGED <<script, analysis, metadata, scanResult, command, rootPkg, tree,
                   pc, packages, scoped, i, exitCode>>

\* the inner loop is over: on to the next package of the root listing
LeaveScope ==
    /\ pc = "walk:scoped"
    /\ j > Len(scoped)
    /\ i' = i + 1
    /\ pc' = "walk:package"
    /\ UNCHANGED <<script, analysis, metadata, scanResult, command, rootPkg, tree,
                   packages, scoped, j, results, reads, scanned, exitCode>>

\* line 225
WalkReturn ==
    /\ pc = "walk:package"
    /\ i > Len(packages)
    /\ pc' = "walk:returned"
    /\ UNCHANGED <<script, analysis, metadata, scanResult, command, rootPkg, tree,
                   packages, scoped, i, j, results, reads, scanned, exitCode>>

Walk == WalkStart \/ VisitPackage \/ ListScope \/ VisitScoped \/ LeaveScope \/ WalkReturn

\* SpecWalk: a library call scanNodeModules(nodeModulesPath)
InitWalk ==
    /\ script = ""
    /\ analysis = NoResult
    /\ metadata = NoResult
    /\ scanResult = NoResult
    /\ command = <<>>
    /\ rootPkg = Missing
    /\ tree \in Trees
    /\ pc = "walk:start"
    /\ packages = <<>>
    /\ scoped = <<>>
    /\ i = 0
    /\ j = 0
    /\ results = <<>>
    /\ reads = <<>>
    /\ scanned = <<>>
    /\ exitCode = -1

NextWalk == Walk

SpecWalk == InitWalk /\ [][NextWalk]_vars

-----------------------------------------------------------------------------
(* The command line front end: main and printSummary *)

Commands ==
    { <<>>, <<"help">>, <<"scan">>, <<"scan", "package.json">>,
      <<"scan", "node_modules">>, <<"check">>, <<"audit">> }

RootFiles == { Missing, Malformed, CleanPkg, LowPkg, HighPkg, CriticalPkg }

HasCommand(name) == Len(command) >= 1 /\ command[1] = name

\* args[1] || './package.json'
Target == IF Len(command) >= 2 THEN command[2] ELSE "./package.json"

\* lines 100-103: no command, or help
Help ==
    /\ pc = "main"
    /\ command = <<>> \/ HasCommand("help")
    /\ pc' = "exited"
    /\ exitCode' = 0
    /\ UNCHANGED <<script, analysis, metadata, scanResult, command, rootPkg, tree,
                   packages, scoped, i, j, results, reads, scanned>>

\* lines 108-115: scan <path ending in package.json>; what scanPackageJson
\* throws reaches main().catch, which exits with status 1
ScanFile ==
    /\ pc = "main"
    /\ HasCommand("scan")
    /\ endsWith(Target, "package.json")
    /\ LET outcome == Scan(rootPkg) IN
       /\ reads' = IF existsSync(rootPkg) THEN Append(reads, Target) ELSE reads
       /\ scanned' = Record(outcome, scanned)
       /\ exitCode' = IF outcome.threw THEN 1
                      ELSE IF outcome.value.overallRisk = "CRITICAL"
                              \/ outcome.value.overallRisk = "HIGH"
                           THEN 1
                           ELSE 0
    /\ pc' = "exited"
    /\ UNCHANGED <<script, analysis, metadata, scanResult, command, rootPkg, tree,
                   packages, scoped, i, j, results>>

\* lines 116-118: scan <directory>
ScanDirectory ==
    /\ pc = "main"
    /\ HasCommand("scan")
    /\ ~endsWith(Target, "package.json")
    /\ pc' = "walk:start"
    /\ UNCHANGED <<script, analysis, metadata, scanResult, command, rootPkg, tree,
                   packages, scoped, i, j, results, reads, scanned, exitCode>>

\* lines 129-135: check, first half: ./package.json is scanned and printed
CheckPackageJson ==
    /\ pc = "main"
    /\ HasCommand("check")
    /\ IF existsSync(rootPkg)
       THEN LET outcome == Scan(rootPkg) IN
            /\ reads' = Append(reads, "./package.json")
            /\ scanned' = Record(outcome, scanned)
            /\ IF outcome.threw
               THEN pc' = "exited" /\ exitCode' = 1
               ELSE pc' = "check:node_modules" /\ UNCHANGED exitCode
       ELSE /\ pc' = "check:node_modules"
            /\ UNCHANGED <<reads, scanned, exitCode>>
    /\ UNCHANGED <<script, analysis, metadata, scanResult, command, rootPkg, tree,
                   packages, scoped, i, j, results>>

\* lines 137-140 and 148: check, second half
CheckNodeModules ==
    /\ pc = "check:node_modules"
    /\ IF tree.exists
       THEN pc' = "walk:start" /\ UNCHANGED exitCode
       ELSE pc' = "exited" /\ exitCode' = 0
    /\ UNCHANGED <<script, analysis, metadata, scanResult, command, rootPkg, tree,
                   packages, scoped, i, j, results, reads, scanned>>

Count(list, level) == Len(SelectSeq(list, LAMBDA r : r.overallRisk = level))

\* the status printSummary leaves the process with: 1 through process.exit(1),
\* otherwise it returns and main ends normally
printSummary(list) ==
    LET critical == Count(list, "CRITICAL")
        high == Count(list, "HIGH")
    IN IF critical > 0 \/ high > 0 THEN 1 ELSE 0

\* lines 120-126 and 142-147: what follows scanNodeModules in scan and check
Summarise ==
    /\ pc = "walk:returned"
    /\ HasCommand("scan") \/ HasCommand("check")
    /\ exitCode' = IF Len(results) = 0 THEN 0 ELSE printSummary(results)
    /\ pc' = "exited"
    /\ UNCHANGED <<script, analysis, metadata, scanResult, command, rootPkg, tree,
                   packages, scoped, i, j, results, reads, scanned>>

\* lines 156-159: an exception out of scanNodeModules reaches main().catch
CatchError ==
    /\ pc = "walk:raised"
    /\ HasCommand("scan") \/ HasCommand("check")
    /\ exitCode' = 1
    /\ pc' = "exited"
    /\ UNCHANGED <<script, analysis, metadata, scanResult, command, rootPkg, tree,
                   packages, scoped, i, j, results, reads, scanned>>

\* lines 149-153
UnknownCommand ==
    /\ pc = "main"
    /\ command # <<>>
    /\ ~HasCommand("help") /\ ~HasCommand("scan") /\ ~HasCommand("check")
    /\ exitCode' = 1
    /\ pc' = "exited"
    /\ UNCHANGED <<script, analysis, metadata, scanResult, command, rootPkg, tree,
                   packages, scoped, i, j, results, reads, scanned>>

Init ==
    /\ script = ""
    /\ analysis = NoResult
    /\ metadata = NoResult
    /\ scanResult = NoResult
    /\ command \in Commands
    /\ rootPkg \in RootFiles
    /\ tree \in Trees
    /\ pc = "main"
    /\ packages = <<>>
    /\ scoped = <<>>
    /\ i = 0
    /\ j = 0
    /\ results = <<>>
    /\ reads = <<>>
    /\ scanned = <<>>
    /\ exitCode = -1

Next ==
    \/ Help
    \/ ScanFile
    \/ ScanDirectory
    \/ CheckPackageJson
    \/ CheckNodeModules
    \/ Walk
    \/ Summarise
    \/ CatchError
    \/ UnknownCommand

Spec == Init /\ [][Next]_vars

-----------------------------------------------------------------------------
(* Properties of analyzeScript, checked under SpecAnalyze *)

Analyzed == analysis # NoResult

\* the catalog pattern number k matches the text
CatalogMatches(k, text) == ~StringMatch(text, suspiciousPatterns[k]).null

NetworkPatterns == 1..4
ShellPatterns == 9..11
CredentialPatterns == 12..18
ObfuscationPatterns == 19..21

HasToken(category, text) == \E k \in category : CatalogMatches(k, text)

\* C1: a script holding a network-category token of the catalog and a
\* credential/env-category token of the catalog is analysed as CRITICAL with
\* score 100, whatever the number of matches.
C1_NetworkWithCredentialIsCritical ==
    (Analyzed /\ HasToken(NetworkPatterns, script) /\ HasToken(CredentialPatterns, script))
        => (analysis.riskLevel = "CRITICAL" /\ analysis.score = 100)

\* C2: a script matched by a shell-exec pattern of the catalog and by an
\* obfuscation pattern of the catalog is analysed as CRITICAL.
C2_ExecWithObfuscationIsCritical ==
    (Analyzed /\ HasToken(ShellPatterns, script) /\ HasToken(ObfuscationPatterns, script))
        => analysis.riskLevel = "CRITICAL"

\* the Match the catalog pattern number k is to produce for the text: its
\* first occurrence and the window of 50 characters on either side of its offset
WindowedMatch(k, text) ==
    LET pattern == suspiciousPatterns[k]
        m == Search(pattern.alts, CanonStr(text), 1)
        offset == m[1] - 1
    IN [pattern |-> pattern.source,
        matched |-> SubSeq(text, m[1], m[2] - 1),
        context |-> SubSeq(text, Max(0, offset - 50) + 1, Min(Len(text), offset + 50))]

RECURSIVE WindowedMatches(_, _)
WindowedMatches(text, k) ==
    IF k > Len(suspiciousPatterns) THEN <<>>
    ELSE (IF CatalogMatches(k, text) THEN <<WindowedMatch(k, text)>> ELSE <<>>)
         \o WindowedMatches(text, k + 1)

\* C9: the matches are, in catalog order, one Match per pattern that occurs
\* in the script, for its first occurrence, and the context of each is the
\* text from max(0, offset - 50) to min(length, offset + 50), so that it
\* holds the start of the matched text.
C9_OneWindowedMatchPerPattern ==
    Analyzed => analysis.matches = WindowedMatches(script, 1)

\* C10: a script that no catalog pattern matches is analysed as LOW with
\* score 25 and without risk notes.
C10_NoMatchIsLowWithoutNotes ==
    (Analyzed /\ analysis.matches = <<>>)
        => (analysis.riskLevel = "LOW" /\ analysis.score = 25 /\ analysis.risks = <<>>)

-----------------------------------------------------------------------------
(* Properties of scanPackageJson, checked under SpecScan *)

ScanReturned == scanResult # NoResult /\ ~scanResult.threw

TierRank == [CRITICAL |-> 4, HIGH |-> 3, MEDIUM |-> 2, LOW |-> 1, SAFE |-> 0]

\* the lifecycle keys present and non-empty in a package.json
PresentScripts(file) ==
    IF file.state # "json" THEN {}
    ELSE { key \in LifecycleKeys : Truthy(Get(Get(file.json, "scripts"), key)) }

\* C3: overallRisk is the highest tier among the riskLevel values of the
\* per-script analyses, and it is SAFE exactly when no lifecycle key is
\* present and non-empty, in which case there are no findings.
C3_OverallRiskIsMaxTier ==
    ScanReturned =>
        LET r == scanResult.value
            levels == { r.scripts[k].riskLevel : k \in DOMAIN r.scripts }
        IN /\ levels # {} =>
                /\ r.overallRisk \in levels
                /\ \A l \in levels : TierRank[l] <= TierRank[r.overallRisk]
           /\ (r.overallRisk = "SAFE") <=> (PresentScripts(metadata) = {})
           /\ PresentScripts(metadata) = {} => r.findings = <<>>
           /\ { r.scripts[k].scriptName : k \in DOMAIN r.scripts } = PresentScripts(metadata)

\* two scripts of different tiers: the result carries the higher one
C3_Witness ==
    /\ ScanReturned
    /\ Len(scanResult.value.scripts) = 2
    /\ scanResult.value.scripts[1].riskLevel = "HIGH"
    /\ scanResult.value.scripts[2].riskLevel = "LOW"
    /\ scanResult.value.overallRisk = "HIGH"

RECURSIVE SumOfMatches(_)
SumOfMatches(scripts) ==
    IF scripts = <<>> THEN 0 ELSE Len(Head(scripts).matches) + SumOfMatches(Tail(scripts))

\* C8: totalMatches is the sum, over the entries of the scripts mapping, of
\* the length of the entry's matches list.
C8_TotalMatchesIsSum ==
    ScanReturned => scanResult.value.totalMatches = SumOfMatches(scanResult.value.scripts)

\* two scripts with matches: three from the first, two from the second
C8_Witness ==
    /\ ScanReturned
    /\ Len(scanResult.value.scripts) = 2
    /\ Len(scanResult.value.scripts[1].matches) = 3
    /\ Len(scanResult.value.scripts[2].matches) = 2
    /\ scanResult.value.totalMatches = 5

-----------------------------------------------------------------------------
(* Properties of scanNodeModules, checked under SpecWalk *)

\* the package.json files the walk meets, in its order: for every directory
\* of the root listing that is not dot-prefixed its own file, then, for a
\* scope, the files of the directories in it
RECURSIVE FilesOf(_, _)
FilesOf(entries, top) ==
    IF entries = <<>> THEN <<>>
    ELSE LET e == Head(entries) IN
         (IF e.isDirectory /\ (top => ~startsWith(e.name, "."))
          THEN (IF existsSync(e.pkg) THEN <<e.pkg>> ELSE <<>>)
               \o (IF top /\ startsWith(e.name, "@") THEN FilesOf(e.children, FALSE) ELSE <<>>)
          ELSE <<>>)
         \o FilesOf(Tail(entries), top)

Flagged(r) == r.overallRisk # "SAFE" \/ r.totalMatches > 0

\* the results of the files that scan successfully, in order, that are flagged
RECURSIVE FlaggedResults(_)
FlaggedResults(files) ==
    IF files = <<>> THEN <<>>
    ELSE LET outcome == Scan(Head(files)) IN
         (IF ~outcome.threw /\ Flagged(outcome.value) THEN <<outcome.value>> ELSE <<>>)
         \o FlaggedResults(Tail(files))

\* C4: scanNodeModules never raises because of a failure local to one
\* package (unreadable or missing metadata, malformed JSON, a non-string
\* lifecycle value, an unreadable scope directory), and what it returns is
\* what the other packages yield.
C4_WalkNeverRaises ==
    /\ pc # "walk:raised"
    /\ pc = "walk:returned" => results = FlaggedResults(FilesOf(tree.entries, TRUE))

\* C5: the returned list is the sequence of the results of the successfully
\* scanned packages, in the order of the walk, restricted to those with
\* overallRisk other than SAFE or totalMatches above 0; no package without
\* lifecycle scripts is in it.
C5_ReturnsFlaggedResultsInOrder ==
    pc = "walk:returned" =>
        /\ results = FlaggedResults(FilesOf(tree.entries, TRUE))
        /\ results = SelectSeq(scanned, Flagged)
        /\ \A k \in DOMAIN results : results[k].scripts # <<>>

\* a walk that kept two results, one of them without a single match, dropped
\* a clean package, and met a scope
C5_Witness ==
    /\ pc = "walk:returned"
    /\ Len(results) >= 2
    /\ Len(scanned) > Len(results)
    /\ \E k \in DOMAIN results : results[k].totalMatches = 0
    /\ \E k \in DOMAIN packages : startsWith(packages[k].name, "@")

\* the paths the walk is to read, in order: one per unscoped package
\* directory, one per package directory of a scope; nothing dot-prefixed at
\* either level and nothing directly in a scope directory
RECURSIVE PackagePaths(_, _)
PackagePaths(entries, parent) ==
    IF entries = <<>> THEN <<>>
    ELSE LET e == Head(entries) IN
         (IF e.isDirectory /\ ~startsWith(e.name, ".")
          THEN IF parent = nodeModulesPath /\ startsWith(e.name, "@")
               THEN PackagePaths(e.children, Join2(parent, e.name))
               ELSE IF existsSync(e.pkg) THEN <<Join3(parent, e.name, "package.json")>>
                    ELSE <<>>
          ELSE <<>>)
         \o PackagePaths(Tail(entries), parent)

\* C6: for N unscoped package directories and M scoped packages the walk
\* reads exactly N+M metadata files, none of a dot-prefixed directory at any
\* level, none directly in an @scope directory, none deeper than scope/package.
C6_ReadsOnePerPackage ==
    pc = "walk:returned" => reads = PackagePaths(tree.entries, nodeModulesPath)

-----------------------------------------------------------------------------
(* Properties of the command line, checked under Spec *)

\* C7: the process exits with a non-zero status when a result scanned
\* during the invocation has overallRisk CRITICAL or HIGH.
C7_HighRiskExitsNonZero ==
    (pc = "exited"
     /\ \E k \in DOMAIN scanned : scanned[k].overallRisk \in {"CRITICAL", "HIGH"})
        => exitCode # 0

====
